---- MODULE Spec2Model ----
(***************************************************************************)
(* The Entity-Component Manager of src/src/entity_component_manager.hpp    *)
(* as a state machine.  The state is the manager's component map (type     *)
(* hash -> sparse set of component wrappers), its tag map (tag hash -> set *)
(* of type hashes), its transformation registry (type hash -> function)    *)
(* and the counter of its id allocator; every public operation is one      *)
(* action.  The                                                            *)
(* manager is single-threaded and synchronous: a caller makes one call,    *)
(* which runs to its end, and takes the result before the next call.       *)
(* `last` holds the call that has just returned and how it ended (Idle     *)
(* between calls), so that properties can speak about "the state after     *)
(* add<T>(e, v)".                                                          *)
(*                                                                         *)
(* The sparse set (sparse_set.hpp), the wrapper (components.hpp), the tag   *)
(* traits (tags.hpp) and ASSERT (utilities.hpp) are modelled from their    *)
(* written design: a failed ASSERT ends the call where it stands, with     *)
(* what the call has written so far left in place.                         *)
(***************************************************************************)
EXTENDS Integers, Sequences, FiniteSets, TLC

\* ------------------------------------------------------------------ bounds
MaxEntityId == 2
MaxArg == 2
MaxStack == 2
MaxWrappers == 2

\* EntityId is a 32-bit unsigned integer; the model narrows it to
\* EntityIdBits bits, so that the allocator's counter wraps within reach.
EntityIdBits == 3
EntityIdRange == 2 ^ EntityIdBits

\* The first id createEntity hands out (ids below it are reserved).
reservedEntities == 1

EntityIds == 0..MaxEntityId
Args == 1..MaxArg

\* ------------------------------------------------------------ tag traits
\* Three component types, chosen so that every storage policy occurs:
\*   Hit      : Stack, Event          (several instances per entity)
\*   Position : NoStack, Required     (one instance, reads assert the set)
\*   Player   : Unique, Event         (neither Stack nor NoStack: default)
Types == {"Hit", "Position", "Player"}
Tags == {"Event", "Effect", "NoStack", "Stack", "Transform", "Required", "Unique"}

isEvent(T) == T \in {"Hit", "Player", "Event"}
isEffect(T) == T \in {"Effect"}
isNotStacked(T) == T \in {"Position", "NoStack"}
isStacked(T) == T \in {"Hit", "Stack"}
isTransform(T) == T \in {"Transform"}
isRequired(T) == T \in {"Position", "Required"}
isUnique(T) == T \in {"Player", "Unique"}
shouldStack(T) == isStacked(T)

\* The non-zero entries of getTagHashes<T>(), as a set of tag names.
getTagHashes(T) ==
    {tag \in Tags :
        \/ tag = "Event" /\ isEvent(T)
        \/ tag = "Effect" /\ isEffect(T)
        \/ tag = "NoStack" /\ isNotStacked(T)
        \/ tag = "Stack" /\ isStacked(T)
        \/ tag = "Transform" /\ isTransform(T)
        \/ tag = "Required" /\ isRequired(T)
        \/ tag = "Unique" /\ isUnique(T)}

\* ----------------------------------------------------- component wrapper
\* Components<T>: the instances in insertion order, the flag set and the
\* optional transformer: <<>> when none is set, else <<fn, eId>>, the
\* registered function and the entity id the transformer was bound to.
NewComponents(arg) == [components |-> <<arg>>, flags |-> {}, transformer |-> <<>>]
DummyComponents == [components |-> <<>>, flags |-> {"EMPTY"}, transformer |-> <<>>]

size(comps) == Len(comps.components)

\* emplace_back: appends one instance; refused on a NoStack wrapper that
\* already holds one.  A written wrapper is no longer an EMPTY sentinel.
emplace_back(T, comps, arg) ==
    IF ~shouldStack(T) /\ size(comps) >= 1
    THEN comps
    ELSE [comps EXCEPT !.components = Append(@, arg), !.flags = @ \ {"EMPTY"}]

\* remove_if: erases the matching instances, survivors keep their order.
remove_if(comps, arg) ==
    [comps EXCEPT !.components = SelectSeq(comps.components, LAMBDA c : c # arg)]

\* operator bool of a wrapper: non-EMPTY and size > 0.
truthy(comps) == "EMPTY" \notin comps.flags /\ size(comps) > 0

\* The transformation functions a caller registers: (eId, c) -> c + 1, as in
\* the transform-on-read scenario.
TransformationFns == {"plusOne"}
transformationFn(fn, eId, c) == IF fn = "plusOne" THEN c + 1 ELSE c

\* The types a caller registers a transformation for.
TransformedTypes == {"Position"}

\* peek: the instances as a reader sees them, each passed through the
\* wrapper's transformer when one is set; the stored instances stay as
\* they are.
peek(comps) ==
    [i \in 1..size(comps) |->
        IF comps.transformer = <<>>
        THEN comps.components[i]
        ELSE transformationFn(comps.transformer[1], comps.transformer[2], comps.components[i])]

\* ----------------------------------------------------------- sparse set
\* SparseSet<EntityId, Components<T>>: the dense wrapper array, its entity-id
\* companion array and the locked bit.  The sparse index is the inverse of
\* `ids` (IndexOf).
NewSet == [dense |-> <<>>, ids |-> <<>>, locked |-> FALSE]

SetSize(cSet) == Len(cSet.ids)

IndexOf(cSet, eId) ==
    IF \E i \in 1..Len(cSet.ids) : cSet.ids[i] = eId
    THEN CHOOSE i \in 1..Len(cSet.ids) : cSet.ids[i] = eId
    ELSE 0

Contains(cSet, eId) == IndexOf(cSet, eId) # 0

\* get(id): the wrapper (only used where Contains holds).
SetGet(cSet, eId) == cSet.dense[IndexOf(cSet, eId)]

\* insert(id, W): writes at the dense tail; refused while locked.
SetInsert(cSet, eId, comps) ==
    IF cSet.locked \/ Contains(cSet, eId)
    THEN cSet
    ELSE [cSet EXCEPT !.dense = Append(@, comps), !.ids = Append(@, eId)]

\* emplace(id, args...): constructs the wrapper in place unless locked.
SetEmplace(cSet, eId, arg) == SetInsert(cSet, eId, NewComponents(arg))

\* overwrite(id, W): replaces the wrapper stored for id.
SetOverwrite(cSet, eId, comps) ==
    IF ~Contains(cSet, eId)
    THEN cSet
    ELSE [cSet EXCEPT !.dense[IndexOf(cSet, eId)] = comps]

\* erase(id): swap with last, then drop the tail.
SetErase(cSet, eId) ==
    IF ~Contains(cSet, eId)
    THEN cSet
    ELSE LET i == IndexOf(cSet, eId)
             n == Len(cSet.ids)
             swappedDense == [cSet.dense EXCEPT ![i] = cSet.dense[n]]
             swappedIds == [cSet.ids EXCEPT ![i] = cSet.ids[n]]
         IN [cSet EXCEPT !.dense = SubSeq(swappedDense, 1, n - 1),
                         !.ids = SubSeq(swappedIds, 1, n - 1)]

SetLock(cSet) == [cSet EXCEPT !.locked = TRUE]
SetUnlock(cSet) == [cSet EXCEPT !.locked = FALSE]

\* Erase a sequence of ids one after the other.
RECURSIVE EraseAll(_, _)
EraseAll(cSet, idSeq) ==
    IF idSeq = <<>>
    THEN cSet
    ELSE EraseAll(SetErase(cSet, Head(idSeq)), Tail(idSeq))

\* eachWithEmpty, as prune uses it: the ids, in dense order from position i
\* on, whose wrapper has no instances.
RECURSIVE SizeZeroIds(_, _)
SizeZeroIds(cSet, i) ==
    IF i > Len(cSet.ids)
    THEN <<>>
    ELSE (IF size(cSet.dense[i]) = 0 THEN <<cSet.ids[i]>> ELSE <<>>)
         \o SizeZeroIds(cSet, i + 1)

\* each skips the wrappers flagged EMPTY: the ids it visits, in dense order.
RECURSIVE EachIds(_, _)
EachIds(cSet, i) ==
    IF i > Len(cSet.ids)
    THEN <<>>
    ELSE (IF "EMPTY" \in cSet.dense[i].flags THEN <<>> ELSE <<cSet.ids[i]>>)
         \o EachIds(cSet, i + 1)

\* The ids each may prune on its way: those of the EMPTY wrappers.
RECURSIVE EmptyFlagIds(_, _)
EmptyFlagIds(cSet, i) ==
    IF i > Len(cSet.ids)
    THEN <<>>
    ELSE (IF "EMPTY" \in cSet.dense[i].flags THEN <<cSet.ids[i]>> ELSE <<>>)
         \o EmptyFlagIds(cSet, i + 1)

\* ------------------------------------------------------------------ state
VARIABLES m_componentMap, m_tagMap, m_transformationMap, m_nextEntityId, last

vars == <<m_componentMap, m_tagMap, m_transformationMap, m_nextEntityId, last>>

\* A manager state as the operators below pass it along: the two maps and
\* how the call has gone so far.
Ecm(cm, tm, status) == [cm |-> cm, tm |-> tm, status |-> status]

MapPut(f, k, v) == [x \in DOMAIN f \cup {k} |-> IF x = k THEN v ELSE f[x]]
MapErase(f, k) == [x \in DOMAIN f \ {k} |-> f[x]]
MapEraseAll(f, ks) == [x \in DOMAIN f \ ks |-> f[x]]

\* ------------------------------------------------- manager: private part
\* createComponentSet<T>: stores a new set under hash(T) and lists hash(T)
\* under every tag of T.
createComponentSet(ecm, T) ==
    LET tags == getTagHashes(T)
        tm == [tag \in DOMAIN ecm.tm \cup tags |->
                  IF tag \in tags
                  THEN (IF tag \in DOMAIN ecm.tm THEN ecm.tm[tag] ELSE {}) \cup {T}
                  ELSE ecm.tm[tag]]
    IN Ecm(MapPut(ecm.cm, T, NewSet), tm, ecm.status)

\* getComponentSet<T>: the stored set, created on first reference.
getComponentSet(ecm, T) ==
    IF T \in DOMAIN ecm.cm THEN ecm ELSE createComponentSet(ecm, T)

\* Mutants of getOrCreateComponent: the dummy built without the EMPTY flag;
\* the insert made without unlocking a locked set.
getOrCreateComponent_noFlag(cSet, eId) ==
    IF Contains(cSet, eId)
    THEN cSet
    ELSE IF cSet.locked
         THEN SetLock(SetInsert(SetUnlock(cSet), eId, [components |-> <<>>, flags |-> {}, transformer |-> <<>>]))
         ELSE SetInsert(cSet, eId, [components |-> <<>>, flags |-> {}, transformer |-> <<>>])

getOrCreateComponent_noUnlock(cSet, eId) ==
    IF Contains(cSet, eId)
    THEN cSet
    ELSE SetInsert(cSet, eId, DummyComponents)

\* Mutant of getOrCreateComponent: the set is locked after the insert whether
\* or not it was locked before.
getOrCreateComponent_lockAlways(cSet, eId) ==
    IF Contains(cSet, eId)
    THEN cSet
    ELSE SetLock(SetInsert(SetUnlock(cSet), eId, DummyComponents))

\* getOrCreateComponent<T>(cSet, eId): a missing wrapper is materialised as
\* an EMPTY dummy, unlocking and re-locking a locked set around the insert.
getOrCreateComponent(cSet, eId) ==
    IF Contains(cSet, eId)
    THEN cSet
    ELSE IF cSet.locked
         THEN SetLock(SetInsert(SetUnlock(cSet), eId, DummyComponents))
         ELSE SetInsert(cSet, eId, DummyComponents)

\* getComponents<T>(eId): asserts a Required set is not empty, then
\* getOrCreateComponent.  The set has been created before the assertion.
getComponents(ecm, T, eId) ==
    LET e1 == getComponentSet(ecm, T)
    IN IF SetSize(e1.cm[T]) = 0 /\ isRequired(T)
       THEN Ecm(e1.cm, e1.tm, "MissingRequiredComponent")
       ELSE Ecm([e1.cm EXCEPT ![T] = getOrCreateComponent(@, eId)], e1.tm, "ok")

\* setTransformer<T>(eId, comps): binds the transformation registered for T,
\* if one is registered at this moment, to the wrapper; else leaves it.
setTransformer(T, eId, comps) ==
    IF T \in DOMAIN m_transformationMap
    THEN [comps EXCEPT !.transformer = <<m_transformationMap[T], eId>>]
    ELSE comps

\* The first branch of addComponent: cSet.emplace(eId, args...), then
\* setTransformer on the wrapper emplace returned (none when it refused).
emplaced(cSet, T, eId, arg) ==
    LET set == SetEmplace(cSet, eId, arg)
    IN IF set = cSet
       THEN cSet
       ELSE SetOverwrite(set, eId, setTransformer(T, eId, SetGet(set, eId)))

\* Mutants of addComponent: the stacking test applied to every type; a
\* NoStack instance replaced instead of kept; the lock assertion left out.
addComponent_refuseStack(ecm, T, eId, arg) ==
    LET e1 == getComponentSet(ecm, T)
        cSet == e1.cm[T]
    IN IF cSet.locked
       THEN Ecm(e1.cm, e1.tm, "LockedSetMutation")
       ELSE IF ~Contains(cSet, eId)
       THEN Ecm([e1.cm EXCEPT ![T] = emplaced(cSet, T, eId, arg)], e1.tm, "ok")
       ELSE IF size(SetGet(cSet, eId)) >= 1
       THEN Ecm(e1.cm, e1.tm, "NoStackViolation")
       ELSE Ecm([e1.cm EXCEPT ![T] =
                    SetOverwrite(cSet, eId,
                                 setTransformer(T, eId, emplace_back(T, SetGet(cSet, eId), arg)))],
                e1.tm, "ok")

addComponent_replace(ecm, T, eId, arg) ==
    LET e1 == getComponentSet(ecm, T)
        cSet == e1.cm[T]
    IN IF cSet.locked
       THEN Ecm(e1.cm, e1.tm, "LockedSetMutation")
       ELSE IF ~Contains(cSet, eId)
       THEN Ecm([e1.cm EXCEPT ![T] = emplaced(cSet, T, eId, arg)], e1.tm, "ok")
       ELSE IF ~shouldStack(T) /\ size(SetGet(cSet, eId)) >= 1
       THEN Ecm([e1.cm EXCEPT ![T] = SetOverwrite(cSet, eId, NewComponents(arg))],
                e1.tm, "NoStackViolation")
       ELSE Ecm([e1.cm EXCEPT ![T] =
                    SetOverwrite(cSet, eId,
                                 setTransformer(T, eId, emplace_back(T, SetGet(cSet, eId), arg)))],
                e1.tm, "ok")

addComponent_noLockCheck(ecm, T, eId, arg) ==
    LET e1 == getComponentSet(ecm, T)
        cSet == e1.cm[T]
    IN IF ~Contains(cSet, eId)
       THEN Ecm([e1.cm EXCEPT ![T] = emplaced(cSet, T, eId, arg)], e1.tm,
                IF cSet.locked THEN "LockedSetMutation" ELSE "ok")
       ELSE IF ~shouldStack(T) /\ size(SetGet(cSet, eId)) >= 1
       THEN Ecm(e1.cm, e1.tm, "NoStackViolation")
       ELSE Ecm([e1.cm EXCEPT ![T] =
                    SetOverwrite(cSet, eId,
                                 setTransformer(T, eId, emplace_back(T, SetGet(cSet, eId), arg)))],
                e1.tm, "ok")

\* Mutant of addComponent: the append to a wrapper that is there leaves its
\* flags as they are.
addComponent_keepFlags(ecm, T, eId, arg) ==
    LET e1 == getComponentSet(ecm, T)
        cSet == e1.cm[T]
    IN IF cSet.locked
       THEN Ecm(e1.cm, e1.tm, "LockedSetMutation")
       ELSE IF ~Contains(cSet, eId)
       THEN Ecm([e1.cm EXCEPT ![T] = emplaced(cSet, T, eId, arg)], e1.tm, "ok")
       ELSE IF ~shouldStack(T) /\ size(SetGet(cSet, eId)) >= 1
       THEN Ecm(e1.cm, e1.tm, "NoStackViolation")
       ELSE Ecm([e1.cm EXCEPT ![T] =
                    SetOverwrite(cSet, eId,
                                 setTransformer(T, eId,
                                    [SetGet(cSet, eId) EXCEPT !.components = Append(@, arg)]))],
                e1.tm, "ok")

\* addComponent<T>(eId, args...)
addComponent(ecm, T, eId, arg) ==
    LET e1 == getComponentSet(ecm, T)
        cSet == e1.cm[T]
    IN IF cSet.locked
       THEN Ecm(e1.cm, e1.tm, "LockedSetMutation")
       ELSE IF ~Contains(cSet, eId)
       THEN Ecm([e1.cm EXCEPT ![T] = emplaced(cSet, T, eId, arg)], e1.tm, "ok")
       ELSE IF ~shouldStack(T) /\ size(SetGet(cSet, eId)) >= 1
       THEN Ecm(e1.cm, e1.tm, "NoStackViolation")
       ELSE Ecm([e1.cm EXCEPT ![T] =
                    SetOverwrite(cSet, eId,
                                 setTransformer(T, eId, emplace_back(T, SetGet(cSet, eId), arg)))],
                e1.tm, "ok")

\* Mutant of addUnique: the set is not locked after the add.
addUnique_noLock(ecm, T, eId, arg) == addComponent(ecm, T, eId, arg)

\* addUnique<T>: a normal add, then the set is locked.  A failed assertion
\* in addComponent leaves before the lock.
addUnique(ecm, T, eId, arg) ==
    LET e1 == addComponent(ecm, T, eId, arg)
    IN IF e1.status = "LockedSetMutation"
       THEN e1
       ELSE Ecm([e1.cm EXCEPT ![T] = SetLock(@)], e1.tm, e1.status)

\* Mutant of overwriteComponent: the new instance is appended to the old ones.
overwriteComponent_append(ecm, T, eId, arg) ==
    IF ~Contains(ecm.cm[T], eId)
    THEN Ecm(ecm.cm, ecm.tm, "OverwriteAbsent")
    ELSE Ecm([ecm.cm EXCEPT ![T] =
                 SetOverwrite(@, eId, [components |-> Append(SetGet(@, eId).components, arg),
                                       flags |-> {}, transformer |-> <<>>])],
             ecm.tm, "ok")

\* Mutant of overwriteComponent: a wrapper that is not there is inserted.
overwriteComponent_insert(ecm, T, eId, arg) ==
    IF ~Contains(ecm.cm[T], eId)
    THEN Ecm([ecm.cm EXCEPT ![T] = SetInsert(@, eId, NewComponents(arg))], ecm.tm,
             "OverwriteAbsent")
    ELSE Ecm([ecm.cm EXCEPT ![T] = SetOverwrite(@, eId, NewComponents(arg))], ecm.tm, "ok")

\* overwriteComponent<T>(eId, cSet, args...), on the stored set.
overwriteComponent(ecm, T, eId, arg) ==
    IF ~Contains(ecm.cm[T], eId)
    THEN Ecm(ecm.cm, ecm.tm, "OverwriteAbsent")
    ELSE Ecm([ecm.cm EXCEPT ![T] = SetOverwrite(@, eId, NewComponents(arg))], ecm.tm, "ok")

\* Mutants of prune: only the wrappers flagged EMPTY are collected; the set
\* is never dropped from the component map.
prune_flagOnly(ecm, T) ==
    IF T \notin DOMAIN ecm.cm
    THEN Ecm(ecm.cm, ecm.tm, "absent")
    ELSE LET cSet == ecm.cm[T]
             ids == EmptyFlagIds(cSet, 1)
             pruned == EraseAll(cSet, ids)
         IN IF Len(ids) = SetSize(cSet)
            THEN Ecm(MapErase(ecm.cm, T), ecm.tm, "dropped")
            ELSE IF SetSize(pruned) = 0
            THEN Ecm(MapErase(ecm.cm, T), ecm.tm, "dropped")
            ELSE Ecm([ecm.cm EXCEPT ![T] = pruned], ecm.tm,
                     IF ids = <<>> THEN "ok" ELSE "erased")

prune_noDrop(ecm, T) ==
    IF T \notin DOMAIN ecm.cm
    THEN Ecm(ecm.cm, ecm.tm, "absent")
    ELSE LET cSet == ecm.cm[T]
             ids == SizeZeroIds(cSet, 1)
         IN Ecm([ecm.cm EXCEPT ![T] = EraseAll(cSet, ids)], ecm.tm,
                IF ids = <<>> THEN "ok" ELSE "erased")

\* Mutant of prune: only the first wrapper of size 0 is collected.
prune_firstOnly(ecm, T) ==
    IF T \notin DOMAIN ecm.cm
    THEN Ecm(ecm.cm, ecm.tm, "absent")
    ELSE LET cSet == ecm.cm[T]
             all == SizeZeroIds(cSet, 1)
             ids == IF all = <<>> THEN <<>> ELSE <<Head(all)>>
             pruned == EraseAll(cSet, ids)
         IN IF Len(ids) = SetSize(cSet)
            THEN Ecm(MapErase(ecm.cm, T), ecm.tm, "dropped")
            ELSE IF SetSize(pruned) = 0
            THEN Ecm(MapErase(ecm.cm, T), ecm.tm, "dropped")
            ELSE Ecm([ecm.cm EXCEPT ![T] = pruned], ecm.tm,
                     IF ids = <<>> THEN "ok" ELSE "erased")

\* prune<T>(compHash).  The status tells which way the call went: no set
\* stored, the whole set dropped, some wrappers erased, or nothing to erase.
prune(ecm, T) ==
    IF T \notin DOMAIN ecm.cm
    THEN Ecm(ecm.cm, ecm.tm, "absent")
    ELSE LET cSet == ecm.cm[T]
             ids == SizeZeroIds(cSet, 1)
             pruned == EraseAll(cSet, ids)
         IN IF Len(ids) = SetSize(cSet)
            THEN Ecm(MapErase(ecm.cm, T), ecm.tm, "dropped")
            ELSE IF SetSize(pruned) = 0
            THEN Ecm(MapErase(ecm.cm, T), ecm.tm, "dropped")
            ELSE Ecm([ecm.cm EXCEPT ![T] = pruned], ecm.tm,
                     IF ids = <<>> THEN "ok" ELSE "erased")

\* clearComponents<T>
clearComponents(ecm, T) == Ecm(MapErase(ecm.cm, T), ecm.tm, ecm.status)

\* Mutant of clearComponentsByTag: the tag's entry is dropped, the sets
\* listed under it are kept.
clearComponentsByTag_entryOnly(ecm, tag) ==
    IF tag \notin DOMAIN ecm.tm
    THEN ecm
    ELSE Ecm(ecm.cm, MapErase(ecm.tm, tag), ecm.status)

\* clearComponentsByTag<Tag>: drops every set listed under the tag, then
\* the tag's entry.
clearComponentsByTag(ecm, tag) ==
    IF tag \notin DOMAIN ecm.tm
    THEN ecm
    ELSE Ecm(MapEraseAll(ecm.cm, ecm.tm[tag]), MapErase(ecm.tm, tag), ecm.status)

\* Mutant of clearEntityComponent: a set the erase leaves without wrappers is
\* unlocked.
clearEntityComponent_unlock(ecm, T, eId) ==
    LET e1 == getComponentSet(ecm, T)
        erased == SetErase(e1.cm[T], eId)
    IN Ecm([e1.cm EXCEPT ![T] = IF SetSize(erased) = 0 THEN SetUnlock(erased) ELSE erased],
           e1.tm, e1.status)

\* Mutant of clearEntityComponent: the set is fetched, nothing is erased.
clearEntityComponent_noErase(ecm, T, eId) == getComponentSet(ecm, T)

\* clearEntityComponent<T>(eId): the set is fetched (hence created) first.
clearEntityComponent(ecm, T, eId) ==
    LET e1 == getComponentSet(ecm, T)
    IN Ecm([e1.cm EXCEPT ![T] = SetErase(@, eId)], e1.tm, e1.status)

\* Mutant of clearEntity: locked sets are left alone.
clearEntity_skipLocked(ecm, eId) ==
    Ecm([T \in DOMAIN ecm.cm |->
            IF ecm.cm[T].locked THEN ecm.cm[T] ELSE SetErase(ecm.cm[T], eId)],
        ecm.tm, ecm.status)

\* clearEntity(eId): erases eId from every stored set.
clearEntity(ecm, eId) ==
    Ecm([T \in DOMAIN ecm.cm |-> SetErase(ecm.cm[T], eId)], ecm.tm, ecm.status)

\* Mutant of the singleton get: the scan keeps the first wrapper in dense
\* order, EMPTY or not.
getUnique_firstDense(ecm, T, autoPrune, ptrNull) ==
    LET e1 == getComponentSet(ecm, T)
        cSet == e1.cm[T]
        visited == cSet.ids
        after == IF autoPrune THEN EraseAll(cSet, EmptyFlagIds(cSet, 1)) ELSE cSet
        e2 == Ecm([e1.cm EXCEPT ![T] = after], e1.tm, "ok")
    IN IF visited # <<>>
       THEN [ecm |-> e2, id |-> Head(visited)]
       ELSE IF ptrNull
       THEN [ecm |-> getComponents(e2, T, 0), id |-> 0]
       ELSE [ecm |-> Ecm(e2.cm, e2.tm, "IndeterminatePointer"), id |-> 0]

\* get<T>() (singleton overload).  each visits the non-EMPTY wrappers and
\* keeps the first; it may prune the EMPTY ones it passes (autoPrune).
\* When nothing is visited compsPtr was never assigned: the test against
\* nullptr reads an indeterminate pointer, so either branch may be taken
\* (ptrNull).  `id` is the first member of the returned pair.
getUnique(ecm, T, autoPrune, ptrNull) ==
    LET e1 == getComponentSet(ecm, T)
        cSet == e1.cm[T]
        visited == EachIds(cSet, 1)
        after == IF autoPrune THEN EraseAll(cSet, EmptyFlagIds(cSet, 1)) ELSE cSet
        e2 == Ecm([e1.cm EXCEPT ![T] = after], e1.tm, "ok")
    IN IF visited # <<>>
       THEN [ecm |-> e2, id |-> Head(visited)]
       ELSE IF ptrNull
       THEN [ecm |-> getComponents(e2, T, 0), id |-> 0]
       ELSE [ecm |-> Ecm(e2.cm, e2.tm, "IndeterminatePointer"), id |-> 0]

\* overwriteUnique<T>(eId, cSet, args...): cSet is passed by value, so the
\* overwrite acts on a copy and the stored set keeps its wrapper.
overwriteUnique(ecm, T, eId, arg, autoPrune, ptrNull) ==
    LET copy == ecm.cm[T]
        g == getUnique(ecm, T, autoPrune, ptrNull)
    IN IF g.ecm.status = "MissingRequiredComponent"
       THEN g.ecm
       ELSE IF eId # g.id
       THEN Ecm(g.ecm.cm, g.ecm.tm, "UniqueOwnershipViolation")
       ELSE Ecm(g.ecm.cm, g.ecm.tm,
                IF Contains(copy, eId) THEN "ok" ELSE "OverwriteAbsent")

\* ---------------------------------------------------------------- actions
Here == Ecm(m_componentMap, m_tagMap, "ok")

Call(op, T, eId, arg, status) ==
    [op |-> op, T |-> T, id |-> eId, arg |-> arg, status |-> status]

\* No call has returned since the caller took the last result.
Idle == Call("idle", "none", 0, 0, "ok")

\* The number of wrappers stored in all sets together.
RECURSIVE TotalWrappers(_, _)
TotalWrappers(cm, Ts) ==
    IF Ts = {}
    THEN 0
    ELSE LET T == CHOOSE x \in Ts : TRUE
         IN SetSize(cm[T]) + TotalWrappers(cm, Ts \ {T})

\* The manager moves to `ecm`; `last` records the call.  The model stores at
\* most MaxWrappers wrappers at a time.
Becomes(ecm, op, T, eId, arg) ==
    /\ last = Idle
    /\ TotalWrappers(ecm.cm, DOMAIN ecm.cm) <= MaxWrappers
    /\ m_componentMap' = ecm.cm
    /\ m_tagMap' = ecm.tm
    /\ last' = Call(op, T, eId, arg, ecm.status)
    /\ UNCHANGED <<m_transformationMap, m_nextEntityId>>

Init ==
    /\ m_componentMap = [T \in {} |-> NewSet]
    /\ m_tagMap = [tag \in {} |-> {}]
    /\ m_transformationMap = [T \in {} |-> "none"]
    /\ m_nextEntityId = reservedEntities
    /\ last = Idle

\* Mutant of add: the call for id 0 is not turned away.
add_noZeroGuard(T, eId, arg) ==
    /\ (shouldStack(T) /\ T \in DOMAIN m_componentMap /\ Contains(m_componentMap[T], eId))
          => size(SetGet(m_componentMap[T], eId)) < MaxStack
    /\ IF isUnique(T)
       THEN Becomes(addUnique(Here, T, eId, arg), "add", T, eId, arg)
       ELSE Becomes(addComponent(Here, T, eId, arg), "add", T, eId, arg)

\* add<T>(eId, args...)
add(T, eId, arg) ==
    /\ (shouldStack(T) /\ T \in DOMAIN m_componentMap /\ Contains(m_componentMap[T], eId))
          => size(SetGet(m_componentMap[T], eId)) < MaxStack
    /\ IF eId = 0
       THEN Becomes(Ecm(m_componentMap, m_tagMap, "noop"), "add", T, eId, arg)
       ELSE IF isUnique(T)
       THEN Becomes(addUnique(Here, T, eId, arg), "add", T, eId, arg)
       ELSE Becomes(addComponent(Here, T, eId, arg), "add", T, eId, arg)

\* overwrite<T>(eId, args...)
overwrite(T, eId, arg) ==
    IF eId = 0
    THEN Becomes(Ecm(m_componentMap, m_tagMap, "noop"), "overwrite", T, eId, arg)
    ELSE IF isUnique(T)
    THEN \E autoPrune \in BOOLEAN, ptrNull \in BOOLEAN :
            Becomes(overwriteUnique(getComponentSet(Here, T), T, eId, arg, autoPrune, ptrNull),
                    "overwrite", T, eId, arg)
    ELSE Becomes(overwriteComponent(getComponentSet(Here, T), T, eId, arg),
                 "overwrite", T, eId, arg)

\* get<T>(eId)
get(T, eId) == Becomes(getComponents(Here, T, eId), "get", T, eId, 0)

\* get<T>() for a Unique T; last.id is the id it returns.
getSingleton(T) ==
    /\ isUnique(T)
    /\ \E autoPrune \in BOOLEAN, ptrNull \in BOOLEAN :
          LET g == getUnique(Here, T, autoPrune, ptrNull)
          IN Becomes(g.ecm, "getUnique", T, g.id, 0)

\* clear<T>()
clear(T) == Becomes(clearComponents(Here, T), "clear", T, 0, 0)

\* clearByTag<Tag>()
clearByTag(tag) == Becomes(clearComponentsByTag(Here, tag), "clearByTag", tag, 0, 0)

\* clearByEntity<T>(eId)
clearByEntity(T, eId) == Becomes(clearEntityComponent(Here, T, eId), "clearByEntity", T, eId, 0)

\* clearEntity(eId)
ClearEntity(eId) == Becomes(clearEntity(Here, eId), "clearEntity", "none", eId, 0)

\* prune<T>()
Prune(T) == Becomes(prune(Here, T), "prune", T, 0, 0)

\* A caller drains a wrapper it holds: get<T>(eId).remove_if(c == arg) on a
\* wrapper that is stored.
removeIf(T, eId, arg) ==
    /\ T \in DOMAIN m_componentMap
    /\ Contains(m_componentMap[T], eId)
    /\ Becomes(Ecm([m_componentMap EXCEPT ![T] =
                        SetOverwrite(@, eId, remove_if(SetGet(@, eId), arg))],
                   m_tagMap, "ok"),
               "remove_if", T, eId, arg)

\* registerTransformation<T>(fn): emplace into the registry, which keeps an
\* entry that is already there.
registerTransformation(T, fn) ==
    /\ last = Idle
    /\ m_transformationMap' =
          IF T \in DOMAIN m_transformationMap
          THEN m_transformationMap
          ELSE MapPut(m_transformationMap, T, fn)
    /\ last' = Call("registerTransformation", T, 0, 0, "ok")
    /\ UNCHANGED <<m_componentMap, m_tagMap, m_nextEntityId>>

\* createEntity(): returns m_nextEntityId++ (last.id is the id returned);
\* the increment of the unsigned counter wraps.
createEntity ==
    /\ last = Idle
    /\ m_nextEntityId' = (m_nextEntityId + 1) % EntityIdRange
    /\ last' = Call("createEntity", "none", m_nextEntityId, 0, "ok")
    /\ UNCHANGED <<m_componentMap, m_tagMap, m_transformationMap>>

\* The caller takes the result of the call that returned.
Return ==
    /\ last # Idle
    /\ last' = Idle
    /\ UNCHANGED <<m_componentMap, m_tagMap, m_transformationMap, m_nextEntityId>>

Next ==
    \/ \E T \in Types, eId \in EntityIds, arg \in Args : add(T, eId, arg)
    \/ \E T \in Types, eId \in EntityIds, arg \in Args : overwrite(T, eId, arg)
    \/ \E T \in Types, eId \in EntityIds : get(T, eId)
    \/ \E T \in Types : getSingleton(T)
    \/ \E T \in Types : clear(T)
    \/ \E tag \in Tags : clearByTag(tag)
    \/ \E T \in Types, eId \in EntityIds : clearByEntity(T, eId)
    \/ \E eId \in EntityIds : ClearEntity(eId)
    \/ \E T \in Types : Prune(T)
    \/ \E T \in Types, eId \in EntityIds, arg \in Args : removeIf(T, eId, arg)
    \/ \E T \in TransformedTypes, fn \in TransformationFns : registerTransformation(T, fn)
    \/ Return

\* The manager as its callers in the tests drive it, with ids they choose.
Spec == Init /\ [][Next]_vars

\* The manager with its id allocator: createEntity interleaved with the
\* calls that store and remove wrappers.
NextAlloc ==
    \/ createEntity
    \/ \E T \in Types, eId \in EntityIds, arg \in Args : add(T, eId, arg)
    \/ \E T \in Types : clear(T)
    \/ \E eId \in EntityIds : ClearEntity(eId)
    \/ \E T \in Types : Prune(T)
    \/ Return

SpecAlloc == Init /\ [][NextAlloc]_vars

\* ------------------------------------------------------------ observers
\* e has a wrapper in T's set.
InSet(cm, T, eId) == T \in DOMAIN cm /\ Contains(cm[T], eId)

\* The instances of e's T wrapper, none when there is no wrapper.
CompsOf(cm, T, eId) == IF InSet(cm, T, eId) THEN SetGet(cm[T], eId).components ELSE <<>>

\* getEntityIds<T>() as a set.
IdSet(cm, T) == IF T \in DOMAIN cm THEN {cm[T].ids[i] : i \in 1..Len(cm[T].ids)} ELSE {}

\* The entities that own at least one instance of T.
Owners(cm, T) == {eId \in IdSet(cm, T) : size(SetGet(cm[T], eId)) >= 1}

\* The call that has just returned.
Returned(op) == last'.op = op

\* ------------------------------------------------------------------- C1
\* C1: for a non-Unique type T and an entity e # 0, add<T>(e, arg) appends
\* arg after the instances e's wrapper already holds (one instance more, in
\* add order), unless T has NoStack semantics and the wrapper holds one.
C1_AddAppendsOne ==
    [][(/\ Returned("add")
        /\ last'.id # 0
        /\ ~isUnique(last'.T)
        /\ ~(~shouldStack(last'.T) /\ Len(CompsOf(m_componentMap, last'.T, last'.id)) >= 1))
       => /\ CompsOf(m_componentMap', last'.T, last'.id)
               = Append(CompsOf(m_componentMap, last'.T, last'.id), last'.arg)
          /\ InSet(m_componentMap', last'.T, last'.id)
          /\ last'.status = "ok"]_vars

\* A Stack wrapper that lists two instances in add order, the second just added.
C1_Witness ==
    /\ last.op = "add" /\ last.T = "Hit" /\ last.id = 1 /\ last.arg = 2
    /\ last.status = "ok"
    /\ CompsOf(m_componentMap, "Hit", 1) = <<1, 2>>

\* ------------------------------------------------------------------- C2
\* C2: for a type with NoStack semantics, add<T>(e, arg2) on a wrapper that
\* already holds one instance is refused: the wrapper keeps its one, first
\* added instance and nothing else in the manager changes.
C2_NoStackRefusal ==
    [][(/\ Returned("add")
        /\ ~shouldStack(last'.T)
        /\ Len(CompsOf(m_componentMap, last'.T, last'.id)) >= 1)
       => /\ m_componentMap' = m_componentMap
          /\ m_tagMap' = m_tagMap
          /\ Len(CompsOf(m_componentMap', last'.T, last'.id)) = 1
          /\ last'.status \in {"NoStackViolation", "LockedSetMutation"}]_vars

\* The second add, with another value, was refused and the first value stands.
C2_Witness ==
    /\ last.op = "add" /\ last.T = "Position" /\ last.id = 1 /\ last.arg = 2
    /\ last.status = "NoStackViolation"
    /\ CompsOf(m_componentMap, "Position", 1) = <<1>>

\* ------------------------------------------------------------------- C3
\* C3: for a Unique type T with an owner e (a wrapper of size >= 1), every
\* add<T>(e2, _) with e2 # e is refused: no wrapper is created or written
\* for e2 and the set keeps exactly the one non-empty wrapper of e.
C3_UniqueRefusesOthers ==
    [][(/\ Returned("add")
        /\ isUnique(last'.T)
        /\ Owners(m_componentMap, last'.T) \ {last'.id} # {})
       => /\ m_componentMap' = m_componentMap
          /\ m_tagMap' = m_tagMap
          /\ Cardinality(Owners(m_componentMap', last'.T)) = 1
          /\ last'.status \in {"LockedSetMutation", "noop"}]_vars

\* Entity 2, which holds a sentinel in the owner's set, was refused.
C3_Witness ==
    /\ last.op = "add" /\ last.T = "Player" /\ last.id = 2
    /\ last.status = "LockedSetMutation"
    /\ Owners(m_componentMap, "Player") = {1}
    /\ InSet(m_componentMap, "Player", 2)

\* ------------------------------------------------------------------- C4
\* C4: in every reachable state the set of a Unique type holds at most one
\* entity whose wrapper has size >= 1.
C4_AtMostOneOwner ==
    \A T \in Types : isUnique(T) => Cardinality(Owners(m_componentMap, T)) <= 1

\* An add made entity 1 the owner of a set that already held another wrapper.
C4_Witness ==
    /\ last.op = "add" /\ last.T = "Player" /\ last.id = 1 /\ last.status = "ok"
    /\ Owners(m_componentMap, "Player") = {1}
    /\ IdSet(m_componentMap, "Player") = {1, 2}
    /\ m_componentMap["Player"].locked

\* ------------------------------------------------------------------- C5
\* A read of a Required type whose set holds nothing fails its assertion.
ReadAsserts(cm, T) == isRequired(T) /\ (T \in DOMAIN cm => SetSize(cm[T]) = 0)

\* The calls that take wrappers out of a set: prune and the clear
\* operations, and the each of the singleton get (also run by overwrite of
\* a Unique type), which may prune the EMPTY wrappers it passes.
Removes(call) ==
    \/ call.op \in {"prune", "clear", "clearByTag", "clearByEntity", "clearEntity", "getUnique"}
    \/ call.op = "overwrite" /\ isUnique(call.T)

\* Once in a set, an id leaves it only through a call that removes wrappers.
StaysUntilRemoved ==
    \A T \in Types, eId \in EntityIds :
        (InSet(m_componentMap, T, eId) /\ ~InSet(m_componentMap', T, eId)) => Removes(last')

\* C5 as claimed: for every type T and every id e without a wrapper in T's
\* set, get<T>(e) creates the set if absent and inserts an EMPTY wrapper of
\* size 0 for e; e stays listed until a prune or clear removes it.
C5_Original ==
    [][/\ (Returned("get") /\ ~InSet(m_componentMap, last'.T, last'.id))
          => /\ InSet(m_componentMap', last'.T, last'.id)
             /\ SetGet(m_componentMap'[last'.T], last'.id) = DummyComponents
       /\ StaysUntilRemoved]_vars

\* C5 (amended): the same for every read that does not fail the Required
\* assertion, that is unless T is Required and its set holds no wrapper.
C5_GetMaterialisesSentinel ==
    [][/\ (/\ Returned("get")
           /\ ~InSet(m_componentMap, last'.T, last'.id)
           /\ ~ReadAsserts(m_componentMap, last'.T))
          => /\ InSet(m_componentMap', last'.T, last'.id)
             /\ SetGet(m_componentMap'[last'.T], last'.id) = DummyComponents
             /\ last'.status = "ok"
       /\ StaysUntilRemoved]_vars

\* A read created the set of Hit together with the sentinel of entity 2.
C5_Witness ==
    /\ last.op = "get" /\ last.T = "Hit" /\ last.id = 2 /\ last.status = "ok"
    /\ m_componentMap["Hit"].ids = <<2>>
    /\ m_componentMap["Hit"].dense = <<DummyComponents>>

C7_PruneRemovesExactlyEmpty ==
    [][Returned("prune")
       => /\ IdSet(m_componentMap', last'.T) = Owners(m_componentMap, last'.T)
          /\ \A eId \in IdSet(m_componentMap', last'.T) :
                SetGet(m_componentMap'[last'.T], eId) = SetGet(m_componentMap[last'.T], eId)
          /\ last'.T \in DOMAIN m_componentMap'
                => SetSize(m_componentMap'[last'.T])
                     = Cardinality(Owners(m_componentMap, last'.T))]_vars

\* A prune erased a wrapper and kept the two instances of entity 1.
C7_Witness ==
    /\ last.op = "prune" /\ last.T = "Hit" /\ last.status = "erased"
    /\ m_componentMap["Hit"].ids = <<1>>
    /\ CompsOf(m_componentMap, "Hit", 1) = <<1, 2>>

\* ------------------------------------------------------------------- C8
\* prune<T>() on a stored set drops it exactly when every wrapper has size 0.
PruneDropsIffAllEmpty ==
    (Returned("prune") /\ last'.T \in DOMAIN m_componentMap)
       => ((last'.T \notin DOMAIN m_componentMap')
             <=> (Owners(m_componentMap, last'.T) = {}))

\* C8 as claimed: prune<T>() drops the set iff all its wrappers have size
\* 0, and a later get<T>(e), finding no set, re-creates it with a fresh
\* EMPTY sentinel for e.
C8_Original ==
    [][/\ PruneDropsIffAllEmpty
       /\ (Returned("get") /\ last'.T \notin DOMAIN m_componentMap)
          => /\ last'.T \in DOMAIN m_componentMap'
             /\ m_componentMap'[last'.T].ids = <<last'.id>>
             /\ m_componentMap'[last'.T].dense = <<DummyComponents>>]_vars

\* C8 (amended): the later get<T>(e) re-creates the set, and for a T that is
\* not Required it adds the fresh EMPTY sentinel for e.
C8_PruneDropsAndGetRecreates ==
    [][/\ PruneDropsIffAllEmpty
       /\ (Returned("get") /\ last'.T \notin DOMAIN m_componentMap)
          => /\ last'.T \in DOMAIN m_componentMap'
             /\ ~isRequired(last'.T)
                  => /\ m_componentMap'[last'.T].ids = <<last'.id>>
                     /\ m_componentMap'[last'.T].dense = <<DummyComponents>>]_vars

\* A prune dropped the set of Hit, which had been created before.
C8_Witness ==
    /\ last.op = "prune" /\ last.T = "Hit" /\ last.status = "dropped"
    /\ "Hit" \notin DOMAIN m_componentMap
    /\ "Stack" \in DOMAIN m_tagMap

\* ------------------------------------------------------------------- C9
\* clearEntity(e) erases e from every stored set, locked or not, and leaves
\* the other wrappers and the stored sets themselves in place.
ClearEntityErasesEverywhere ==
    Returned("clearEntity")
       => /\ DOMAIN m_componentMap' = DOMAIN m_componentMap
          /\ \A T \in DOMAIN m_componentMap :
                /\ IdSet(m_componentMap', T) = IdSet(m_componentMap, T) \ {last'.id}
                /\ m_componentMap'[T].locked = m_componentMap[T].locked
                /\ \A eId \in IdSet(m_componentMap', T) :
                      SetGet(m_componentMap'[T], eId) = SetGet(m_componentMap[T], eId)

\* e is in no stored set, as after clearEntity(e).
InNoSet(cm, eId) == \A T \in DOMAIN cm : ~Contains(cm[T], eId)

\* C9 as claimed: after clearEntity(e) no id list contains e, and get<T>(e)
\* for any T returns a freshly materialised EMPTY sentinel of size 0.
C9_Original ==
    [][/\ ClearEntityErasesEverywhere
       /\ (Returned("get") /\ InNoSet(m_componentMap, last'.id))
          => /\ InSet(m_componentMap', last'.T, last'.id)
             /\ SetGet(m_componentMap'[last'.T], last'.id) = DummyComponents]_vars

\* C9 (amended): get<T>(e) returns the fresh sentinel for every T whose read
\* does not fail the Required assertion (T Required and its set empty).
C9_ClearEntity ==
    [][/\ ClearEntityErasesEverywhere
       /\ (/\ Returned("get")
           /\ InNoSet(m_componentMap, last'.id)
           /\ ~ReadAsserts(m_componentMap, last'.T))
          => /\ InSet(m_componentMap', last'.T, last'.id)
             /\ SetGet(m_componentMap'[last'.T], last'.id) = DummyComponents]_vars

\* clearEntity(1) took the owner out of the locked Player set, which stays
\* stored and locked beside the set of Hit.
C9_Witness ==
    /\ last.op = "clearEntity" /\ last.id = 1
    /\ "Player" \in DOMAIN m_componentMap
    /\ m_componentMap["Player"].locked
    /\ m_componentMap["Player"].ids = <<>>
    /\ "Hit" \in DOMAIN m_componentMap
    /\ InNoSet(m_componentMap, 1)

\* ------------------------------------------------------------------ C10
\* C10: for a non-Unique type T and an entity e # 0 with a wrapper in T's
\* set (several instances, one, none, or an EMPTY sentinel), overwrite<T>(e,
\* arg) leaves a non-EMPTY wrapper with exactly the instance built from arg
\* and changes no other wrapper.
C10_OverwriteLeavesOne ==
    [][(/\ Returned("overwrite")
        /\ last'.id # 0
        /\ ~isUnique(last'.T)
        /\ InSet(m_componentMap, last'.T, last'.id))
       => /\ m_componentMap'
               = [m_componentMap EXCEPT
                    ![last'.T] = SetOverwrite(@, last'.id, NewComponents(last'.arg))]
          /\ CompsOf(m_componentMap', last'.T, last'.id) = <<last'.arg>>
          /\ last'.status = "ok"]_vars

\* An overwrite left the Stack wrapper of entity 1 with the one new instance.
C10_Witness ==
    /\ last.op = "overwrite" /\ last.T = "Hit" /\ last.id = 1 /\ last.arg = 2
    /\ last.status = "ok"
    /\ CompsOf(m_componentMap, "Hit", 1) = <<2>>

\* ------------------------------------------------------------------ C11
\* C11: for a Unique type T with an owner, overwrite<T>(e, arg) by the owner
\* e replaces the owner's stored instances by the one built from arg, so
\* that a following get<T>(e) sees it; by any other e # 0 it fails with
\* UniqueOwnershipViolation and leaves the stored set as it was.
C11_OverwriteUnique ==
    [][(/\ Returned("overwrite")
        /\ isUnique(last'.T)
        /\ last'.id # 0
        /\ Owners(m_componentMap, last'.T) # {})
       => IF last'.id \in Owners(m_componentMap, last'.T)
          THEN CompsOf(m_componentMap', last'.T, last'.id) = <<last'.arg>>
          ELSE /\ last'.status = "UniqueOwnershipViolation"
               /\ m_componentMap'[last'.T] = m_componentMap[last'.T]]_vars

\* ------------------------------------------------------------------ C12
\* What a read of e's T wrapper yields when the transformation registered
\* for T is applied to every stored instance.
Transformed(cm, T, eId) ==
    [i \in 1..Len(CompsOf(cm, T, eId)) |->
        transformationFn(m_transformationMap[T], eId, CompsOf(cm, T, eId)[i])]

\* C12: once a transformation is registered for T, also when e's instances
\* were added before the registration, every read get<T>(e) yields
\* fn(e, stored instance); registering and reading leave the stored
\* instances as they were.
C12_TransformOnNextRead ==
    [][/\ (/\ Returned("get")
           /\ last'.T \in DOMAIN m_transformationMap
           /\ Len(CompsOf(m_componentMap, last'.T, last'.id)) >= 1)
          => /\ peek(SetGet(m_componentMap'[last'.T], last'.id))
                  = Transformed(m_componentMap, last'.T, last'.id)
             /\ CompsOf(m_componentMap', last'.T, last'.id)
                  = CompsOf(m_componentMap, last'.T, last'.id)
       /\ Returned("registerTransformation") => m_componentMap' = m_componentMap]_vars

\* ------------------------------------------------------------------ C13
\* C13: with a transformation fn registered for T and bound to e's wrapper
\* (e's instance was added after the registration), the value written by
\* overwrite<T>(e, arg) is read back as fn(e, arg): the wrapper still
\* applies the transformation.
C13_OverwriteKeepsTransform ==
    [][(/\ Returned("overwrite")
        /\ last'.T \in DOMAIN m_transformationMap
        /\ last'.id # 0
        /\ ~isUnique(last'.T)
        /\ InSet(m_componentMap, last'.T, last'.id)
        /\ SetGet(m_componentMap[last'.T], last'.id).transformer # <<>>)
       => peek(SetGet(m_componentMap'[last'.T], last'.id))
            = <<transformationFn(m_transformationMap[last'.T], last'.id, last'.arg)>>]_vars

\* ------------------------------------------------------------------ C14
\* C14: in every reachable state no stored sparse set holds a wrapper keyed
\* by the entity id 0.
C14_NoWrapperForIdZero ==
    \A T \in DOMAIN m_componentMap : ~Contains(m_componentMap[T], 0)

\* ------------------------------------------------------------------ C15
\* C15: in every reachable state every component hash listed under a tag in
\* the tag map is the key of a set stored in the component map.
C15_TagIndexPointsAtStoredSets ==
    \A tag \in DOMAIN m_tagMap : m_tagMap[tag] \subseteq DOMAIN m_componentMap

\* ------------------------------------------------------------------ C16
\* C16: after clearByTag<Tag>(), from any state, no set of a type carrying
\* Tag is stored, every set of a type not carrying Tag is stored as it was
\* before, and no set has been created.
C16_ClearByTag ==
    [][Returned("clearByTag")
       => /\ \A T \in DOMAIN m_componentMap' : last'.T \notin getTagHashes(T)
          /\ \A T \in DOMAIN m_componentMap :
                last'.T \notin getTagHashes(T)
                   => /\ T \in DOMAIN m_componentMap'
                      /\ m_componentMap'[T] = m_componentMap[T]
          /\ DOMAIN m_componentMap' \subseteq DOMAIN m_componentMap]_vars

\* clearByTag<Event> was called while the tag map listed both Event types,
\* Hit and Player, and Hit also under Stack (the entry stays behind): the
\* Position set, not an Event, is stored with its wrapper.
C16_Witness ==
    /\ last.op = "clearByTag" /\ last.T = "Event"
    /\ DOMAIN m_componentMap = {"Position"}
    /\ CompsOf(m_componentMap, "Position", 1) = <<1>>
    /\ "Event" \notin DOMAIN m_tagMap
    /\ "Stack" \in DOMAIN m_tagMap /\ "Hit" \in m_tagMap["Stack"]
    /\ "Unique" \in DOMAIN m_tagMap /\ "Player" \in m_tagMap["Unique"]

\* ------------------------------------------------------------------ C17
\* C17: for a Unique type T whose set holds an owner e (a wrapper of size
\* >= 1), the singleton get<T>() returns e and leaves e's wrapper as it
\* is, whatever EMPTY sentinels of other entities the set holds and
\* wherever they sit in dense order, before and after prune<T>().
C17_SingletonGetFindsOwner ==
    [][(/\ Returned("getUnique")
        /\ Owners(m_componentMap, last'.T) # {})
       => /\ last'.id \in Owners(m_componentMap, last'.T)
          /\ last'.status = "ok"
          /\ InSet(m_componentMap', last'.T, last'.id)
          /\ SetGet(m_componentMap'[last'.T], last'.id)
               = SetGet(m_componentMap[last'.T], last'.id)]_vars

\* The singleton get returned the owner 1, which sits behind the sentinel of
\* entity 2 in dense order.
C17_Witness ==
    /\ last.op = "getUnique" /\ last.T = "Player" /\ last.id = 1 /\ last.status = "ok"
    /\ m_componentMap["Player"].ids = <<2, 1>>
    /\ m_componentMap["Player"].dense = <<DummyComponents, NewComponents(1)>>
    /\ m_componentMap["Player"].locked

\* ------------------------------------------------------------------ C18
\* C18: for a Unique type T whose set is absent or holds no wrapper, the
\* singleton get<T>() returns (0, W) with W a materialised EMPTY sentinel
\* of size 0: the call ends normally with the sentinel stored for id 0.
C18_SingletonGetOnEmptySet ==
    [][(/\ Returned("getUnique")
        /\ last'.T \in DOMAIN m_componentMap => SetSize(m_componentMap[last'.T]) = 0)
       => /\ last'.id = 0
          /\ last'.status = "ok"
          /\ InSet(m_componentMap', last'.T, 0)
          /\ SetGet(m_componentMap'[last'.T], 0) = DummyComponents]_vars

\* ------------------------------------------------------------------ C19
\* C19: add<T>(0, arg), for any T, changes nothing: the component map (the
\* stored sets with their wrappers and lock bits), the tag map and the
\* transformation registry are as before the call, and T's set is not
\* created.
C19_AddZeroIsNoOp ==
    [][(Returned("add") /\ last'.id = 0)
       => /\ m_componentMap' = m_componentMap
          /\ m_tagMap' = m_tagMap
          /\ m_transformationMap' = m_transformationMap
          /\ last'.status = "noop"]_vars

\* add<Player>(0, 1) returned with no Player set stored, beside a Hit set
\* that holds the wrapper of entity 1.
C19_Witness ==
    /\ last.op = "add" /\ last.T = "Player" /\ last.id = 0 /\ last.status = "noop"
    /\ "Player" \notin DOMAIN m_componentMap
    /\ "Unique" \notin DOMAIN m_tagMap
    /\ CompsOf(m_componentMap, "Hit", 1) = <<1>>

\* ------------------------------------------------------------------ C20
\* The fatal outcomes of a call: add on a locked Unique set, a read of a
\* Required type with nothing stored, overwrite of a Unique type by an
\* entity that is not the owner.
Fatal == {"LockedSetMutation", "MissingRequiredComponent", "UniqueOwnershipViolation"}

\* C20: whenever a call fails fatally, the component map (every stored set
\* and wrapper) and the tag map are as before the call: no set and no
\* wrapper has been created.
C20_FatalLeavesStateUntouched ==
    [][last'.status \in Fatal
       => /\ m_componentMap' = m_componentMap
          /\ m_tagMap' = m_tagMap]_vars

\* ------------------------------------------------------------------ C21
\* The call that has just returned is an add<T> that went through.
AddSucceeded(T) == last'.op = "add" /\ last'.T = T /\ last'.status = "ok"

\* T's set is stored and locked.
Locked(cm, T) == T \in DOMAIN cm /\ cm[T].locked

\* C21: a stored set is locked if and only if its type is Unique and an add
\* to it has succeeded.  In every step: a set of a non-Unique type is not
\* locked; a set becomes locked only in a successful add<T> of a Unique T
\* (never in a get that stores a sentinel); a successful add<T> of a Unique
\* T leaves the set locked; a locked set stays locked while it is stored.
C21_LockedIffUniqueAdd ==
    [][\A T \in Types :
          /\ Locked(m_componentMap', T) => isUnique(T)
          /\ (Locked(m_componentMap', T) /\ ~Locked(m_componentMap, T)) => AddSucceeded(T)
          /\ (AddSucceeded(T) /\ isUnique(T)) => Locked(m_componentMap', T)
          /\ (Locked(m_componentMap, T) /\ T \in DOMAIN m_componentMap')
                => Locked(m_componentMap', T)]_vars

\* A get stored a sentinel in the Player set, which no add has reached: it is
\* not locked.
C21_Witness ==
    /\ last.op = "get" /\ last.T = "Player" /\ last.id = 1 /\ last.status = "ok"
    /\ m_componentMap["Player"].ids = <<1>>
    /\ m_componentMap["Player"].dense = <<DummyComponents>>
    /\ ~m_componentMap["Player"].locked

\* ------------------------------------------------------------------ C22
\* Every stored wrapper flagged EMPTY holds no instance.
EmptyHasSizeZero(cm) ==
    \A T \in DOMAIN cm : \A i \in 1..Len(cm[T].dense) :
        "EMPTY" \in cm[T].dense[i].flags => size(cm[T].dense[i]) = 0

AddErasePrune(ecm, T, eId, arg) ==
    LET added == IF eId = 0
                 THEN ecm
                 ELSE IF isUnique(T)
                 THEN addUnique(ecm, T, eId, arg)
                 ELSE addComponent(ecm, T, eId, arg)
        erased == clearEntityComponent(added, T, eId)
    IN prune(erased, T)

\* T's set is the same in both component maps: stored in neither, or stored
\* in both with the same wrappers, ids and lock bit.
SameSet(cm1, cm2, T) ==
    /\ T \in DOMAIN cm1 <=> T \in DOMAIN cm2
    /\ T \in DOMAIN cm1 => cm1[T] = cm2[T]

\* The round trip of C23 restores T's set, for every entity not in the set.
RoundTripRestores(T) ==
    \A eId \in EntityIds, arg \in Args :
        ~InSet(m_componentMap, T, eId)
           => SameSet(AddErasePrune(Here, T, eId, arg).cm, m_componentMap, T)

\* C23 as claimed: from any state, add<T>(e, arg) for an e not in T's set,
\* then clearByEntity<T>(e), then prune<T>() leaves T's set as it was before
\* the add, and not stored if it was not stored before.
C23_Original == \A T \in Types : RoundTripRestores(T)

\* C23 (amended): the same from every state in which T's set is not stored,
\* or holds at least one wrapper and no wrapper of size 0.
C23_AddErasePruneRestores ==
    \A T \in Types :
        (T \in DOMAIN m_componentMap
            => /\ SetSize(m_componentMap[T]) >= 1
               /\ SizeZeroIds(m_componentMap[T], 1) = <<>>)
           => RoundTripRestores(T)

\* The round trip has been run for entity 2 on the Position set, which holds
\* the instance of entity 1 as before it: the prune found nothing to erase.
C23_Witness ==
    /\ last.op = "prune" /\ last.T = "Position" /\ last.status = "ok"
    /\ m_componentMap["Position"].ids = <<1>>
    /\ CompsOf(m_componentMap, "Position", 1) = <<1>>
    /\ ~InSet(m_componentMap, "Position", 2)
    /\ SameSet(AddErasePrune(Here, "Position", 2, 1).cm, m_componentMap, "Position")

\* ------------------------------------------------------------------ C24
\* C24: prune<T>() is idempotent: in the state a prune<T>() has left, a
\* second prune<T>() changes neither the component map nor the tag map.
C24_PruneIdempotent ==
    [][Returned("prune")
       => LET again == prune(Ecm(m_componentMap', m_tagMap', "ok"), last'.T)
          IN /\ again.cm = m_componentMap'
             /\ again.tm = m_tagMap'
             /\ again.status \in {"absent", "ok"}]_vars

\* A prune erased the sentinel of entity 1 from the Hit set and kept the
\* instance of entity 2, which swap-remove moved to the front.
C24_Witness ==
    /\ last.op = "prune" /\ last.T = "Hit" /\ last.status = "erased"
    /\ m_componentMap["Hit"].ids = <<2>>
    /\ CompsOf(m_componentMap, "Hit", 2) = <<1>>

\* ------------------------------------------------------------------ C26
\* C26: erasing the owner of a Unique type T (clearEntity, clearByEntity)
\* leaves T's set stored and locked; on a locked set without an owner every
\* add<T> is refused and changes nothing; such a set stops being stored
\* only through prune<T>, clear<T> or clearByTag, and prune<T> does drop
\* it; the next add<T>(e, arg), e # 0, with no set stored succeeds, makes
\* e the owner and locks the re-created set.
C26_LockOutlivesOwner ==
    [][\A T \in Types : isUnique(T) =>
          /\ (/\ last'.op \in {"clearEntity", "clearByEntity"}
              /\ Locked(m_componentMap, T))
             => Locked(m_componentMap', T)
          /\ (/\ Returned("add") /\ last'.T = T
              /\ Locked(m_componentMap, T)
              /\ Owners(m_componentMap, T) = {})
             => /\ last'.status \in {"LockedSetMutation", "noop"}
                /\ m_componentMap' = m_componentMap
          /\ (Locked(m_componentMap, T) /\ T \notin DOMAIN m_componentMap')
             => last'.op \in {"prune", "clear", "clearByTag"}
          /\ (/\ Returned("prune") /\ last'.T = T
              /\ Locked(m_componentMap, T)
              /\ Owners(m_componentMap, T) = {})
             => T \notin DOMAIN m_componentMap'
          /\ (/\ Returned("add") /\ last'.T = T /\ last'.id # 0
              /\ T \notin DOMAIN m_componentMap)
             => /\ last'.status = "ok"
                /\ Locked(m_componentMap', T)
                /\ Owners(m_componentMap', T) = {last'.id}]_vars

\* The former owner's add was refused by the Player set, which is locked
\* and holds no wrapper since the owner was erased.
C26_Witness ==
    /\ last.op = "add" /\ last.T = "Player" /\ last.id = 1
    /\ last.status = "LockedSetMutation"
    /\ m_componentMap["Player"].ids = <<>>
    /\ m_componentMap["Player"].locked

\* ------------------------------------------------------------------ C27
\* What C27 says of an overwrite<T>(e, arg) that finds no wrapper of e: the
\* write-to-absent warning, e still not in T's set, T's set as before (or
\* the new empty set, if none was stored), every other set unchanged.
RefusedAsAbsent ==
    /\ last'.status = "OverwriteAbsent"
    /\ ~InSet(m_componentMap', last'.T, last'.id)
    /\ m_componentMap'
         = IF last'.T \in DOMAIN m_componentMap
           THEN m_componentMap
           ELSE MapPut(m_componentMap, last'.T, NewSet)

\* C27 as claimed: for every type T, overwrite<T>(e, arg) for an e # 0
\* without a wrapper in T's set is refused with a warning and creates no
\* wrapper; the only side effect is the creation of T's empty set.
C27_Original ==
    [][(/\ Returned("overwrite")
        /\ last'.id # 0
        /\ ~InSet(m_componentMap, last'.T, last'.id))
       => RefusedAsAbsent]_vars

\* C27 (amended): the same for every T that is not Unique; for a Unique T
\* the call goes through the ownership assertion instead.
C27_OverwriteAbsentRefused ==
    [][(/\ Returned("overwrite")
        /\ last'.id # 0
        /\ ~isUnique(last'.T)
        /\ ~InSet(m_componentMap, last'.T, last'.id))
       => RefusedAsAbsent]_vars

\* overwrite<Hit>(2, 1) was refused: the Hit set holds the wrapper of entity
\* 1 and none for entity 2.
C27_Witness ==
    /\ last.op = "overwrite" /\ last.T = "Hit" /\ last.id = 2
    /\ last.status = "OverwriteAbsent"
    /\ m_componentMap["Hit"].ids = <<1>>
    /\ CompsOf(m_componentMap, "Hit", 1) = <<1, 2>>

\* ------------------------------------------------------------------ C25
\* C25: createEntity() returns ids that start at the reserved constant, are
\* never 0 and are strictly increasing: the id returned is the counter's
\* value, not below reservedEntities, the counter is larger afterwards, and
\* no other call (clearEntity, clear, prune, add) moves the counter.
C25_IdsStrictlyIncreasing ==
    [][IF Returned("createEntity")
       THEN /\ last'.id = m_nextEntityId
            /\ last'.id # 0
            /\ last'.id >= reservedEntities
            /\ m_nextEntityId' > m_nextEntityId
       ELSE m_nextEntityId' = m_nextEntityId]_vars

====
